---- MODULE Spec2Model ----
(***************************************************************************)
(* Huffman-DataComp: src/huffman.py modelled as a state machine.           *)
(*                                                                         *)
(* Python values are represented as follows.                               *)
(*   bytes / list of int : a sequence of integers                          *)
(*   str of '0'/'1'      : a sequence over {0, 1}                          *)
(*   dict with ordered keys (freq_dict) : a sequence of <<key, value>>     *)
(*   dict used for lookup only (codes)  : a function on its key set        *)
(*   HuffmanNode         : [symbol, left, right, number]                   *)
(*   None (as a node)    : NoneNode;  None symbol / number : -1            *)
(*   a call that may raise : [exc |-> name, val |-> result]                *)
(***************************************************************************)
EXTENDS Integers, Sequences, FiniteSets, TLC

\* ------------------------------------------------------------- bounds
\* Symbols of the compress pipeline are 0..MaxSym, its texts have at most
\* MaxLen bytes.
MaxSym == 3
MaxLen == 5
\* Trees of the tree-level specification carry symbols 0..MaxTreeSym with
\* frequencies 1..MaxFreq.
MaxTreeSym == 3
MaxFreq == 2
\* The packer specification: symbols 0..MaxPackSym, codes of 1..MaxCodeLen
\* bits, texts of at most MaxPackLen bytes.
MaxPackSym == 1
MaxCodeLen == 2
MaxPackLen == 9

Symbols == 0..MaxSym
TreeSymbols == 0..MaxTreeSym
PackSymbols == 0..MaxPackSym

\* ------------------------------------------------------- Python values
NoSymbol == -1
NoNumber == -1
NoneNode == [none |-> TRUE]

HuffmanNode(symbol, left, right) ==
    [symbol |-> symbol, left |-> left, right |-> right, number |-> NoNumber]

Leaf(symbol) == HuffmanNode(symbol, NoneNode, NoneNode)

\* HuffmanNode.is_leaf: not self.left and not self.right
is_leaf(node) == node.left = NoneNode /\ node.right = NoneNode

ReadNode(l_type, l_data, r_type, r_data) ==
    [l_type |-> l_type, l_data |-> l_data, r_type |-> r_type, r_data |-> r_data]

Ok(v) == [exc |-> "none", val |-> v]
Raise(e) == [exc |-> e, val |-> <<>>]

Reverse(s) == [i \in 1..Len(s) |-> s[Len(s) + 1 - i]]

\* s[:n] and s[n:] for n >= 0
Take(s, n) == SubSeq(s, 1, IF n < Len(s) THEN n ELSE Len(s))
Drop(s, n) == SubSeq(s, n + 1, Len(s))

\* an ordered dict as a sequence of <<key, value>>
DictKeys(d) == [i \in 1..Len(d) |-> d[i][1]]
DictKeySet(d) == {d[i][1] : i \in 1..Len(d)}
DictGet(d, k) == (CHOOSE i \in 1..Len(d) : d[i][1] = k) \* index of key k
DictVal(d, k) == d[DictGet(d, k)][2]
DictDel(d, k) == SubSeq(d, 1, DictGet(d, k) - 1) \o SubSeq(d, DictGet(d, k) + 1, Len(d))

EmptyCodes == [k \in {} |-> <<>>]
\* d.update(e): the entries of e replace those of d
DictUpdate(d, e) ==
    [k \in DOMAIN d \cup DOMAIN e |-> IF k \in DOMAIN e THEN e[k] ELSE d[k]]

\* ------------------------------------------------------- byte helpers
RECURSIVE Pow2(_)
Pow2(n) == IF n = 0 THEN 1 ELSE 2 * Pow2(n - 1)

RECURSIVE SumSeq(_)
SumSeq(s) == IF s = <<>> THEN 0 ELSE s[1] + SumSeq(Tail(s))

\* int(bits[pos]) << (7 - pos) raises ValueError (negative shift count) once
\* pos > 7, whatever the bit is.
bits_to_byte(bits) ==
    IF Len(bits) > 8 THEN Raise("ValueError")
    ELSE Ok(SumSeq([p \in 1..Len(bits) |-> bits[p] * Pow2(8 - p)]))

get_bit(byte, bit_num) == (byte \div Pow2(bit_num)) % 2

byte_to_bits(byte) == [p \in 1..8 |-> get_bit(byte, 8 - p)]

\* --------------------------------------------------------- compression
RECURSIVE make_freq_dict_loop(_, _)
make_freq_dict_loop(text, dic) ==
    IF text = <<>> THEN dic
    ELSE LET char == Head(text)
         IN make_freq_dict_loop(Tail(text),
              IF char \notin DictKeySet(dic)
              THEN Append(dic, <<char, 1>>)
              ELSE [dic EXCEPT ![DictGet(dic, char)] = <<char, dic[DictGet(dic, char)][2] + 1>>])

make_freq_dict(text) == make_freq_dict_loop(text, <<>>)

RECURSIVE find_biggest_scan(_, _, _, _)
find_biggest_scan(keylist, i, current_key, freq_dict) ==
    IF i > Len(keylist) THEN current_key
    ELSE find_biggest_scan(keylist, i + 1,
           IF DictVal(freq_dict, keylist[i]) > DictVal(freq_dict, current_key)
           THEN keylist[i] ELSE current_key,
           freq_dict)

\* find_biggest_key reads the caller's freq_dict, not the copy
find_biggest_key(keylist, freq_dict) ==
    IF Len(keylist) > 0 THEN find_biggest_scan(keylist, 1, keylist[1], freq_dict)
    ELSE NoSymbol

\* list.remove(x): the first occurrence
ListRemove(l, x) ==
    LET i == CHOOSE j \in 1..Len(l) : l[j] = x /\ \A h \in 1..(j - 1) : l[h] # x
    IN SubSeq(l, 1, i - 1) \o SubSeq(l, i + 1, Len(l))

\* one pass of "while len(key_list) > 0" (lines 108-112) on
\* [temp, frequency, key_list, biggest_key]
select_step(st, freq_dict) ==
    LET kl == ListRemove(st.key_list, st.biggest_key)
    IN [temp |-> Append(st.temp, st.biggest_key),
        frequency |-> DictDel(st.frequency, st.biggest_key),
        key_list |-> kl,
        biggest_key |-> find_biggest_key(kl, freq_dict)]

\* lines 115-118: pop temp into nodes_list, then reverse it
RECURSIVE pop_leaves(_, _)
pop_leaves(tmp, nodes) ==
    IF Len(tmp) = 0 THEN nodes
    ELSE pop_leaves(SubSeq(tmp, 1, Len(tmp) - 1), Append(nodes, Leaf(tmp[Len(tmp)])))

make_leaves(tmp) == Reverse(pop_leaves(tmp, <<>>))

\* A faulty variant of insert_parent: the merged node is appended at the tail.
insert_parent_tail(nodes, parent_node) == Append(nodes, parent_node)

\* where a merged node is put back: nodes_list.insert(0, parent_node)
insert_parent(nodes, parent_node) == <<parent_node>> \o nodes

\* one pass of "while True" (lines 121-127) on a list of at least two nodes
merge_step(nodes) ==
    LET first_node == nodes[Len(nodes)]
        second_node == nodes[Len(nodes) - 1]
        parent_node == HuffmanNode(NoSymbol, first_node, second_node)
    IN insert_parent(SubSeq(nodes, 1, Len(nodes) - 2), parent_node)

\* A faulty variant of prefix_codes: the sub-table is merged without its leading bit.
prefix_codes_nobit(bit, d) == d

\* '0' + temp1[key] for every key of a sub-table (lines 166-167, 174-175)
prefix_codes(bit, d) == [k \in DOMAIN d |-> <<bit>> \o d[k]]

\* get_codes: tree.left.is_leaf() on a missing child raises AttributeError
RECURSIVE get_codes(_)
get_codes(tree) ==
    IF is_leaf(tree) THEN Ok(EmptyCodes)
    ELSE IF tree.left = NoneNode THEN Raise("AttributeError")
    ELSE
      LET l == IF is_leaf(tree.left) THEN Ok((tree.left.symbol :> <<0>>))
               ELSE LET temp1 == get_codes(tree.left)
                    IN IF temp1.exc # "none" THEN temp1
                       ELSE Ok(prefix_codes(0, temp1.val))
      IN IF l.exc # "none" THEN l
         ELSE IF tree.right = NoneNode THEN Raise("AttributeError")
         ELSE
           LET r == IF is_leaf(tree.right) THEN Ok((tree.right.symbol :> <<1>>))
                    ELSE LET temp2 == get_codes(tree.right)
                         IN IF temp2.exc # "none" THEN temp2
                            ELSE Ok(prefix_codes(1, temp2.val))
           IN IF r.exc # "none" THEN r
              ELSE Ok(DictUpdate(l.val, r.val))

\* traverse_node (lines 198-217): "if not node" stops only at None, so leaves
\* are numbered like any node; a left child inherits x, a right child x + 1.
RECURSIVE traverse_node(_, _)
traverse_node(node, x) ==
    IF node = NoneNode THEN node
    ELSE [node EXCEPT !.number = x,
                      !.left = traverse_node(node.left, x),
                      !.right = traverse_node(node.right, x + 1)]

\* Every call ends with max += 1; tree.number = max + 1 on its own local
\* max = 0; the last one to run is the root's own call.
number_nodes(tree) == [traverse_node(tree, 0) EXCEPT !.number = (0 + 1) + 1]

\* avg_length: the pair <<l, divisor>> of the quotient l / divisor
RECURSIVE avg_length_loop(_, _, _, _, _)
avg_length_loop(tree, freq_dict, i, l, divisor) ==
    IF i > Len(freq_dict)
    THEN IF divisor = 0 THEN Raise("ZeroDivisionError") ELSE Ok(<<l, divisor>>)
    ELSE LET c == get_codes(tree)
             key == freq_dict[i][1]
         IN IF c.exc # "none" THEN c
            ELSE IF key \notin DOMAIN c.val THEN Raise("KeyError")
            ELSE avg_length_loop(tree, freq_dict, i + 1,
                                 l + Len(c.val[key]) * freq_dict[i][2],
                                 divisor + freq_dict[i][2])

avg_length(tree, freq_dict) == avg_length_loop(tree, freq_dict, 1, 0, 0)

RECURSIVE concat_codes(_, _)
concat_codes(text, codes) ==
    IF text = <<>> THEN <<>> ELSE codes[Head(text)] \o concat_codes(Tail(text), codes)

\* the number of passes of the packing loop: range(1, (len(byte) % 8) + 2)
pack_length(byte) == (Len(byte) % 8) + 2

\* lines 269-271: for i in range(1, length)
RECURSIVE pack_loop(_, _, _, _)
pack_loop(byte, i, length, lst) ==
    IF i >= length THEN Ok(lst)
    ELSE LET b == bits_to_byte(Take(byte, 8 * i))
         IN IF b.exc # "none" THEN b
            ELSE pack_loop(Drop(byte, 8 * i), i + 1, length, Append(lst, b.val))

generate_compressed(text, codes) ==
    IF \E j \in 1..Len(text) : text[j] \notin DOMAIN codes THEN Raise("KeyError")
    ELSE LET byte == concat_codes(text, codes)
         IN IF Len(byte) < 8 THEN Ok(<<bits_to_byte(byte).val>>)
            ELSE pack_loop(byte, 1, pack_length(byte), <<>>)

\* traverse_tree (lines 296-318)
RECURSIVE traverse_tree(_)
traverse_tree(node) ==
    IF node = NoneNode THEN <<>>
    ELSE LET l == IF node.left # NoneNode /\ is_leaf(node.left)
                  THEN <<0, node.left.symbol>>
                  ELSE traverse_tree(node.left)
             r == IF node.right # NoneNode /\ is_leaf(node.right)
                  THEN <<0, node.right.symbol>>
                  ELSE traverse_tree(node.right)
             s == IF ~is_leaf(node) THEN <<1, node.number>> ELSE <<>>
         IN l \o r \o s

\* bytes(lst[:-2])
tree_to_bytes(tree) ==
    LET lst == traverse_tree(tree)
    IN SubSeq(lst, 1, Len(lst) - 2)

num_nodes_to_bytes(tree) == <<tree.number + 1>>

\* size.to_bytes(4, "little")
size_to_bytes(size) ==
    [p \in 1..4 |-> (size \div Pow2(8 * (p - 1))) % 256]

\* ------------------------------------------------------- decompression
\* Python's list[i]: -len <= i < len, a negative i counts from the end
PyIndexOk(l, i) == -Len(l) <= i /\ i < Len(l)
PyAt(l, i) == IF i >= 0 THEN l[i + 1] ELSE l[Len(l) + i + 1]

RECURSIVE generate_tree_general(_, _)
generate_tree_general(node_lst, root_index) ==
    LET tree == HuffmanNode(NoSymbol, NoneNode, NoneNode)
    IN IF Len(node_lst) = 1
       THEN Ok([tree EXCEPT !.left = Leaf(node_lst[1].l_data),
                            !.right = Leaf(node_lst[1].r_data)])
       ELSE IF ~PyIndexOk(node_lst, root_index) THEN Raise("IndexError")
       ELSE
         LET rn == PyAt(node_lst, root_index)
             t1 == IF rn.l_type = 1
                   THEN IF rn.l_data = 1
                        THEN [tree EXCEPT !.right =
                                generate_tree_general(<<node_lst[1]>>, root_index).val]
                        ELSE [tree EXCEPT !.left =
                                generate_tree_general(<<node_lst[2]>>, root_index).val]
                   ELSE [tree EXCEPT !.left = Leaf(rn.l_data)]
             t2 == IF rn.r_type = 1
                   THEN IF rn.r_data = 1
                        THEN [t1 EXCEPT !.right =
                                generate_tree_general(<<node_lst[1]>>, root_index).val]
                        ELSE [t1 EXCEPT !.left =
                                generate_tree_general(<<node_lst[2]>>, root_index).val]
                   ELSE [t1 EXCEPT !.right = Leaf(rn.r_data)]
         IN Ok(t2)

generate_tree_postorder(node_lst, root_index) ==
    LET tree == HuffmanNode(NoSymbol, NoneNode, NoneNode)
    IN IF Len(node_lst) = 1
       THEN Ok([tree EXCEPT !.left = Leaf(node_lst[1].l_data),
                            !.right = Leaf(node_lst[1].r_data)])
       ELSE IF ~PyIndexOk(node_lst, root_index) THEN Raise("IndexError")
       ELSE
         LET rn == PyAt(node_lst, root_index)
             t1 == IF rn.l_type = 1
                   THEN IF rn.l_data = 0
                        THEN [tree EXCEPT !.right =
                                generate_tree_general(<<node_lst[2]>>, root_index).val]
                        ELSE [tree EXCEPT !.left =
                                generate_tree_general(<<node_lst[1]>>, root_index).val]
                   ELSE [tree EXCEPT !.left = Leaf(rn.l_data)]
             t2 == IF rn.r_type = 1
                   THEN IF rn.r_data = 1
                        THEN [t1 EXCEPT !.right =
                                generate_tree_general(<<node_lst[2]>>, root_index).val]
                        ELSE [t1 EXCEPT !.left =
                                generate_tree_general(<<node_lst[1]>>, root_index).val]
                   ELSE [t1 EXCEPT !.right = Leaf(rn.r_data)]
         IN Ok(t2)

\* generate_uncompressed has no body but its docstring: it returns None
generate_uncompressed(tree, text, size) == NoneNode

\* buf[i + 1..3] past the end of buf raises IndexError
bytes_to_nodes(buf) ==
    IF Len(buf) % 4 # 0 THEN Raise("IndexError")
    ELSE Ok([n \in 1..(Len(buf) \div 4) |->
               ReadNode(buf[4 * n - 3], buf[4 * n - 2], buf[4 * n - 1], buf[4 * n])])

\* int.from_bytes(buf, "little")
bytes_to_size(buf) == SumSeq([p \in 1..Len(buf) |-> buf[p] * Pow2(8 * (p - 1))])

\* improve_tree has no body but its docstring: the tree is left as it was
improve_tree(tree, freq_dict) == tree

\* f.read(n) at position pos of the file
FileRead(f, pos, n) == SubSeq(f, pos + 1, IF pos + n < Len(f) THEN pos + n ELSE Len(f))

\* ---------------------------------------- huffman_tree, run to completion
huffman_tree_start(freq_dict) ==
    [temp |-> <<>>,
     frequency |-> freq_dict,
     key_list |-> DictKeys(freq_dict),
     biggest_key |-> find_biggest_key(DictKeys(freq_dict), freq_dict)]

RECURSIVE select_all(_, _)
select_all(s, freq_dict) ==
    IF Len(s.key_list) > 0 THEN select_all(select_step(s, freq_dict), freq_dict) ELSE s

RECURSIVE merge_all(_)
merge_all(nodes) ==
    IF Len(nodes) = 0 THEN Raise("IndexError")
    ELSE IF Len(nodes) = 1 THEN Ok(nodes[1])
    ELSE merge_all(merge_step(nodes))

huffman_tree(freq_dict) ==
    merge_all(make_leaves(select_all(huffman_tree_start(freq_dict), freq_dict).temp))

\* ------------------------------------------------------------- state
VARIABLES
    text,        \* compress: the bytes read from in_file
    pc,          \* the line compress (or the function under test) is at
    exc,         \* the exception that ended it, "none" while it runs
    freq,        \* freq / freq_dict
    st,          \* huffman_tree's temp, frequency, key_list, biggest_key
    nodes_list,  \* huffman_tree's nodes_list
    tree,        \* the tree under construction / in use
    codes,       \* get_codes' table
    avg,         \* avg_length's <<l, divisor>>
    result,      \* the header bytes (compress) / tree_to_bytes' bytes
    packed,      \* generate_compressed's list
    upc,         \* the line uncompress is at
    uexc,        \* the exception that ended uncompress
    file,        \* uncompress: the bytes of in_file
    fpos,        \* its read position
    num_nodes,   \* uncompress' num_nodes
    node_lst,    \* bytes_to_nodes' list
    utree,       \* the tree rebuilt by generate_tree_general
    ptree,       \* the tree rebuilt by generate_tree_postorder
    size,        \* uncompress' size
    out,         \* the bytes written to out_file
    prev         \* the tree as it was before the latest number_nodes

cvars == <<text, pc, exc, freq, st, nodes_list, tree, codes, avg, result, packed>>
uvars == <<upc, uexc, file, fpos, num_nodes, node_lst, utree, ptree, size, out>>
vars == <<cvars, uvars, prev>>

NoLocals == [temp |-> <<>>, frequency |-> <<>>, key_list |-> <<>>, biggest_key |-> NoSymbol]

Texts == UNION {[1..n -> Symbols] : n \in 0..MaxLen}

UInit ==
    /\ upc = "idle" /\ uexc = "none" /\ file = <<>> /\ fpos = 0
    /\ num_nodes = 0 /\ node_lst = <<>> /\ utree = NoneNode /\ ptree = NoneNode
    /\ size = 0 /\ out = <<>>

Init ==
    /\ text \in Texts
    /\ pc = "make_freq_dict" /\ exc = "none"
    /\ freq = <<>> /\ st = NoLocals /\ nodes_list = <<>>
    /\ tree = NoneNode /\ codes = EmptyCodes /\ avg = <<0, 0>>
    /\ result = <<>> /\ packed = <<>>
    /\ prev = NoneNode
    /\ UInit

\* --------------------------------------------------- compress, line by line
\* line 353
C_MakeFreqDict ==
    /\ pc = "make_freq_dict"
    /\ freq' = make_freq_dict(text)
    /\ pc' = "huffman_tree"
    /\ UNCHANGED <<text, exc, st, nodes_list, tree, codes, avg, result, packed, uvars, prev>>

\* line 354, huffman_tree lines 101-106
C_HuffmanTreeStart ==
    /\ pc = "huffman_tree"
    /\ st' = huffman_tree_start(freq)
    /\ pc' = "select"
    /\ UNCHANGED <<text, exc, freq, nodes_list, tree, codes, avg, result, packed, uvars, prev>>

\* huffman_tree lines 108-112, one pass
C_Select ==
    /\ pc = "select"
    /\ Len(st.key_list) > 0
    /\ st' = select_step(st, freq)
    /\ UNCHANGED <<text, pc, exc, freq, nodes_list, tree, codes, avg, result, packed, uvars, prev>>

\* huffman_tree lines 115-118
C_Leaves ==
    /\ pc = "select"
    /\ Len(st.key_list) = 0
    /\ nodes_list' = make_leaves(st.temp)
    /\ st' = [st EXCEPT !.temp = <<>>]
    /\ pc' = "merge"
    /\ UNCHANGED <<text, exc, freq, tree, codes, avg, result, packed, uvars, prev>>

\* huffman_tree lines 121-127, one pass that merges
C_Merge ==
    /\ pc = "merge"
    /\ Len(nodes_list) >= 2
    /\ nodes_list' = merge_step(nodes_list)
    /\ UNCHANGED <<text, pc, exc, freq, st, tree, codes, avg, result, packed, uvars, prev>>

\* huffman_tree lines 122-124: the last node is returned
C_Return ==
    /\ pc = "merge"
    /\ Len(nodes_list) = 1
    /\ tree' = nodes_list[1]
    /\ nodes_list' = <<>>
    /\ pc' = "get_codes"
    /\ UNCHANGED <<text, exc, freq, st, codes, avg, result, packed, uvars, prev>>

\* huffman_tree line 122 on an empty list: pop raises IndexError
C_PopEmpty ==
    /\ pc = "merge"
    /\ Len(nodes_list) = 0
    /\ pc' = "raised" /\ exc' = "IndexError"
    /\ UNCHANGED <<text, freq, st, nodes_list, tree, codes, avg, result, packed, uvars, prev>>

\* line 355
C_GetCodes ==
    /\ pc = "get_codes"
    /\ LET c == get_codes(tree)
       IN IF c.exc # "none"
          THEN pc' = "raised" /\ exc' = c.exc /\ codes' = codes
          ELSE pc' = "number_nodes" /\ exc' = exc /\ codes' = c.val
    /\ UNCHANGED <<text, freq, st, nodes_list, tree, avg, result, packed, uvars, prev>>

\* line 356
C_NumberNodes ==
    /\ pc = "number_nodes"
    /\ tree' = number_nodes(tree)
    /\ prev' = tree
    /\ pc' = "avg_length"
    /\ UNCHANGED <<text, exc, freq, st, nodes_list, codes, avg, result, packed, uvars>>

\* line 363
C_AvgLength ==
    /\ pc = "avg_length"
    /\ LET a == avg_length(tree, freq)
       IN IF a.exc # "none"
          THEN pc' = "raised" /\ exc' = a.exc /\ avg' = avg
          ELSE pc' = "header" /\ exc' = exc /\ avg' = a.val
    /\ UNCHANGED <<text, freq, st, nodes_list, tree, codes, result, packed, uvars, prev>>

\* lines 364-365
C_Header ==
    /\ pc = "header"
    /\ result' = num_nodes_to_bytes(tree) \o tree_to_bytes(tree) \o size_to_bytes(Len(text))
    /\ pc' = "generate_compressed"
    /\ UNCHANGED <<text, exc, freq, st, nodes_list, tree, codes, avg, packed, uvars, prev>>

\* line 366, the call
C_GenerateCompressed ==
    /\ pc = "generate_compressed"
    /\ LET g == generate_compressed(text, codes)
       IN IF g.exc # "none"
          THEN pc' = "raised" /\ exc' = g.exc /\ packed' = packed
          ELSE pc' = "concat" /\ exc' = exc /\ packed' = g.val
    /\ UNCHANGED <<text, freq, st, nodes_list, tree, codes, avg, result, uvars, prev>>

\* line 366, result += <list>: bytes and list do not concatenate (TypeError),
\* so lines 367-369 never run and out_file is never written
C_Concat ==
    /\ pc = "concat"
    /\ pc' = "raised" /\ exc' = "TypeError"
    /\ UNCHANGED <<text, freq, st, nodes_list, tree, codes, avg, result, packed, uvars, prev>>

Compress ==
    \/ C_MakeFreqDict \/ C_HuffmanTreeStart \/ C_Select \/ C_Leaves \/ C_Merge
    \/ C_Return \/ C_PopEmpty \/ C_GetCodes \/ C_NumberNodes \/ C_AvgLength
    \/ C_Header \/ C_GenerateCompressed \/ C_Concat

\* ------------------------------------------------- uncompress, line by line
\* line 508.  in_file holds the four-part buffer compress had assembled in
\* result and the list it packed when it stopped at line 366.
U_Open ==
    /\ upc = "idle"
    /\ pc = "raised" /\ exc = "TypeError"
    /\ file' = result \o packed
    /\ fpos' = 0
    /\ upc' = "read_count"
    /\ UNCHANGED <<cvars, uexc, num_nodes, node_lst, utree, ptree, size, out, prev>>

\* line 509
U_ReadCount ==
    /\ upc = "read_count"
    /\ LET b == FileRead(file, fpos, 1)
       IN IF Len(b) = 0
          THEN upc' = "raised" /\ uexc' = "IndexError" /\ num_nodes' = num_nodes
          ELSE upc' = "read_nodes" /\ uexc' = uexc /\ num_nodes' = b[1]
    /\ fpos' = fpos + Len(FileRead(file, fpos, 1))
    /\ UNCHANGED <<cvars, file, node_lst, utree, ptree, size, out, prev>>

\* lines 510-511
U_ReadNodes ==
    /\ upc = "read_nodes"
    /\ LET buf == FileRead(file, fpos, num_nodes * 4)
           n == bytes_to_nodes(buf)
       IN /\ fpos' = fpos + Len(buf)
          /\ IF n.exc # "none"
             THEN upc' = "raised" /\ uexc' = n.exc /\ node_lst' = node_lst
             ELSE upc' = "generate_tree" /\ uexc' = uexc /\ node_lst' = n.val
    /\ UNCHANGED <<cvars, file, num_nodes, utree, ptree, size, out, prev>>

\* line 513
U_GenerateTree ==
    /\ upc = "generate_tree"
    /\ LET t == generate_tree_general(node_lst, num_nodes - 1)
       IN IF t.exc # "none"
          THEN upc' = "raised" /\ uexc' = t.exc /\ utree' = utree
          ELSE upc' = "read_size" /\ uexc' = uexc /\ utree' = t.val
    /\ UNCHANGED <<cvars, file, fpos, num_nodes, node_lst, ptree, size, out, prev>>

\* line 514
U_ReadSize ==
    /\ upc = "read_size"
    /\ size' = bytes_to_size(FileRead(file, fpos, 4))
    /\ fpos' = fpos + Len(FileRead(file, fpos, 4))
    /\ upc' = "write"
    /\ UNCHANGED <<cvars, uexc, file, num_nodes, node_lst, utree, ptree, out, prev>>

\* lines 515-517: out_file is opened (and so emptied), the rest of in_file is
\* read, and g.write(None) raises TypeError
U_Write ==
    /\ upc = "write"
    /\ LET data == generate_uncompressed(utree, FileRead(file, fpos, Len(file)), size)
       IN IF data = NoneNode
          THEN upc' = "raised" /\ uexc' = "TypeError" /\ out' = <<>>
          ELSE upc' = "done" /\ uexc' = uexc /\ out' = data
    /\ fpos' = Len(file)
    /\ UNCHANGED <<cvars, file, num_nodes, node_lst, utree, ptree, size, prev>>

Uncompress ==
    \/ U_Open \/ U_ReadCount \/ U_ReadNodes \/ U_GenerateTree \/ U_ReadSize \/ U_Write

Next == Compress \/ Uncompress

Spec == Init /\ [][Next]_vars

\* ------------------------------------------- the tree functions on any tree
\* Every binary tree whose leaves carry the symbols of S, each once.
RECURSIVE TreesOver(_)
TreesOver(S) ==
    IF Cardinality(S) = 1 THEN {Leaf(s) : s \in S}
    ELSE UNION {{HuffmanNode(NoSymbol, l, r) : l \in TreesOver(A), r \in TreesOver(S \ A)} :
                A \in (SUBSET S) \ {{}, S}}

\* The keys of S in ascending order, as a dict literal would list them.
RECURSIVE SortedKeys(_)
SortedKeys(S) ==
    IF S = {} THEN <<>>
    ELSE LET m == CHOOSE x \in S : \A y \in S : x <= y
         IN <<m>> \o SortedKeys(S \ {m})

TreeTables ==
    UNION {{[i \in 1..Len(SortedKeys(S)) |-> <<SortedKeys(S)[i], f[SortedKeys(S)[i]]>>] :
            f \in [S -> 1..MaxFreq]} : S \in (SUBSET TreeSymbols) \ {{}}}

TInit ==
    /\ freq \in TreeTables
    /\ tree \in TreesOver(DictKeySet(freq))
    /\ pc = "tree" /\ exc = "none"
    /\ text = <<>> /\ st = NoLocals /\ nodes_list = <<>>
    /\ codes = EmptyCodes /\ avg = <<0, 0>>
    /\ result = <<>> /\ packed = <<>>
    /\ prev = NoneNode
    /\ UInit

tfixed == <<text, freq, st, nodes_list, codes, packed, upc, uexc, file, fpos, num_nodes, size, out>>

\* number_nodes(tree), a first and a second time
T_NumberNodes ==
    /\ pc \in {"tree", "numbered"}
    /\ tree' = number_nodes(tree)
    /\ prev' = tree
    /\ pc' = IF pc = "tree" THEN "numbered" ELSE "renumbered"
    /\ UNCHANGED <<tfixed, exc, avg, result, node_lst, utree, ptree>>

\* tree_to_bytes(tree) on a numbered tree
T_TreeToBytes ==
    /\ pc \in {"numbered", "renumbered"}
    /\ result' = tree_to_bytes(tree)
    /\ pc' = "serialized"
    /\ UNCHANGED <<tfixed, exc, tree, prev, avg, node_lst, utree, ptree>>

\* bytes_to_nodes on those bytes
T_BytesToNodes ==
    /\ pc = "serialized"
    /\ LET n == bytes_to_nodes(result)
       IN IF n.exc # "none"
          THEN pc' = "raised" /\ exc' = n.exc /\ node_lst' = node_lst
          ELSE pc' = "parsed" /\ exc' = exc /\ node_lst' = n.val
    /\ UNCHANGED <<tfixed, tree, prev, avg, result, utree, ptree>>

\* generate_tree_general(node_lst, len(node_lst) - 1)
T_GenerateGeneral ==
    /\ pc = "parsed"
    /\ LET t == generate_tree_general(node_lst, Len(node_lst) - 1)
       IN IF t.exc # "none"
          THEN pc' = "raised" /\ exc' = t.exc /\ utree' = utree
          ELSE pc' = "general" /\ exc' = exc /\ utree' = t.val
    /\ UNCHANGED <<tfixed, tree, prev, avg, result, node_lst, ptree>>

\* generate_tree_postorder(node_lst, len(node_lst) - 1)
T_GeneratePostorder ==
    /\ pc = "general"
    /\ LET t == generate_tree_postorder(node_lst, Len(node_lst) - 1)
       IN IF t.exc # "none"
          THEN pc' = "raised" /\ exc' = t.exc /\ ptree' = ptree
          ELSE pc' = "rebuilt" /\ exc' = exc /\ ptree' = t.val
    /\ UNCHANGED <<tfixed, tree, prev, avg, result, node_lst, utree>>

\* improve_tree(tree, freq_dict)
T_ImproveTree ==
    /\ pc = "tree"
    /\ tree' = improve_tree(tree, freq)
    /\ prev' = tree
    /\ pc' = "improved"
    /\ UNCHANGED <<tfixed, exc, avg, result, node_lst, utree, ptree>>

\* avg_length(tree, freq_dict) after improve_tree
T_AvgLength ==
    /\ pc = "improved"
    /\ LET a == avg_length(tree, freq)
       IN IF a.exc # "none"
          THEN pc' = "raised" /\ exc' = a.exc /\ avg' = avg
          ELSE pc' = "measured" /\ exc' = exc /\ avg' = a.val
    /\ UNCHANGED <<tfixed, tree, prev, result, node_lst, utree, ptree>>

TNext ==
    \/ T_NumberNodes \/ T_TreeToBytes \/ T_BytesToNodes \/ T_GenerateGeneral
    \/ T_GeneratePostorder \/ T_ImproveTree \/ T_AvgLength

SpecTree == TInit /\ [][TNext]_vars

\* ------------------------------------------- generate_compressed on any table
BitStrings == UNION {[1..n -> {0, 1}] : n \in 1..MaxCodeLen}
PackTexts == UNION {[1..n -> PackSymbols] : n \in 0..MaxPackLen}

PInit ==
    /\ text \in PackTexts
    /\ codes \in [PackSymbols -> BitStrings]
    /\ pc = "pack" /\ exc = "none"
    /\ freq = <<>> /\ st = NoLocals /\ nodes_list = <<>>
    /\ tree = NoneNode /\ avg = <<0, 0>>
    /\ result = <<>> /\ packed = <<>>
    /\ prev = NoneNode
    /\ UInit

\* generate_compressed(text, codes)
P_GenerateCompressed ==
    /\ pc = "pack"
    /\ LET g == generate_compressed(text, codes)
       IN IF g.exc # "none"
          THEN pc' = "raised" /\ exc' = g.exc /\ packed' = packed
          ELSE pc' = "packed" /\ exc' = exc /\ packed' = g.val
    /\ UNCHANGED <<text, freq, st, nodes_list, tree, codes, avg, result, uvars, prev>>

PNext == P_GenerateCompressed

SpecPack == PInit /\ [][PNext]_vars

\* ===================================================================
\* Properties
\* ===================================================================
RECURSIVE InternalCount(_)
InternalCount(t) ==
    IF t = NoneNode THEN 0
    ELSE IF is_leaf(t) THEN 0
    ELSE 1 + InternalCount(t.left) + InternalCount(t.right)

\* the tree with every number removed
RECURSIVE Unnumber(_)
Unnumber(t) ==
    IF t = NoneNode THEN t
    ELSE [t EXCEPT !.number = NoNumber, !.left = Unnumber(t.left), !.right = Unnumber(t.right)]

\* the tree with its internal nodes numbered n, n + 1, ... in postorder and
\* its leaves left without a number
RECURSIVE Postorder(_, _)
Postorder(t, n) ==
    IF is_leaf(t) THEN [t EXCEPT !.number = NoNumber]
    ELSE [t EXCEPT !.left = Postorder(t.left, n),
                   !.right = Postorder(t.right, n + InternalCount(t.left)),
                   !.number = n + InternalCount(t.left) + InternalCount(t.right)]

\* the branching structure alone
RECURSIVE Shape(_)
Shape(t) == IF t = NoneNode THEN <<>> ELSE <<Shape(t.left), Shape(t.right)>>

\* the leaves left to right, each as <<depth, symbol>>
RECURSIVE LeafDepths(_, _)
LeafDepths(t, d) ==
    IF is_leaf(t) THEN <<<<d, t.symbol>>>>
    ELSE LeafDepths(t.left, d + 1) \o LeafDepths(t.right, d + 1)

IsPrefix(a, b) == Len(a) <= Len(b) /\ SubSeq(b, 1, Len(a)) = a

TreeBuilt == pc \notin {"make_freq_dict", "huffman_tree", "select", "merge"}
CodesReady == TreeBuilt /\ pc # "get_codes"
HeaderBuilt == Len(result) > 0

\* ---- C1
RunEnded == (pc = "raised" /\ exc # "TypeError") \/ upc \in {"raised", "done"}

\* C1: for every non-empty byte sequence S, compressing S and then
\* decompressing the buffer returns exactly S: once both have ended,
\* uncompress has ended normally and has written S.
C1_RoundTrip ==
    (Len(text) > 0 /\ RunEnded) => (upc = "done" /\ out = text)

\* ---- C3
\* C3: the first header byte equals the number of internal nodes of the tree
\* built by huffman_tree and numbered by number_nodes, and tree_to_bytes
\* gives exactly four bytes per internal node (the header is that byte, the
\* tree bytes and four size bytes).
C3_HeaderCount ==
    HeaderBuilt =>
        /\ result[1] = InternalCount(tree)
        /\ Len(result) - 5 = 4 * InternalCount(tree)

\* ---- C7
\* C7: for a frequency table with at least two symbols, get_codes of the
\* tree huffman_tree built has exactly the table's symbols as its keys, every
\* code is a non-empty bit string, and no code is a prefix of another.
C7_PrefixFree ==
    (CodesReady /\ Len(freq) >= 2) =>
        /\ DOMAIN codes = DictKeySet(freq)
        /\ \A k \in DOMAIN codes :
              /\ Len(codes[k]) >= 1
              /\ \A p \in 1..Len(codes[k]) : codes[k][p] \in {0, 1}
        /\ \A a \in DOMAIN codes : \A b \in DOMAIN codes :
              a # b => ~IsPrefix(codes[a], codes[b])

\* four symbols, codes of two bits, and the table was used for packing
C7_Witness ==
    /\ pc = "concat"
    /\ Len(freq) = 4
    /\ \E k \in DOMAIN codes : Len(codes[k]) = 2

\* ---- C8
\* C8: for a table with exactly one symbol s, huffman_tree returns an
\* internal root whose two children are leaves carrying s, and get_codes
\* gives s a code of length at least 1.
C8_SingleSymbol ==
    (TreeBuilt /\ Len(freq) = 1) =>
        /\ ~is_leaf(tree)
        /\ tree.left # NoneNode /\ is_leaf(tree.left) /\ tree.left.symbol = freq[1][1]
        /\ tree.right # NoneNode /\ is_leaf(tree.right) /\ tree.right.symbol = freq[1][1]
        /\ CodesReady => (freq[1][1] \in DOMAIN codes /\ Len(codes[freq[1][1]]) >= 1)

\* ---- C10
\* the queue holds one leaf per symbol, by descending frequency, symbols of
\* equal frequency in the table's key order
QueueOrdered ==
    /\ \A i \in 1..Len(nodes_list) : is_leaf(nodes_list[i])
    /\ {nodes_list[i].symbol : i \in 1..Len(nodes_list)} = DictKeySet(freq)
    /\ \A i \in 1..Len(nodes_list) : \A j \in 1..Len(nodes_list) :
          i < j =>
            LET a == nodes_list[i].symbol
                b == nodes_list[j].symbol
            IN \/ DictVal(freq, a) > DictVal(freq, b)
               \/ DictVal(freq, a) = DictVal(freq, b) /\ DictGet(freq, a) < DictGet(freq, b)

\* C10: for a table with at least two symbols, huffman_tree builds its queue
\* of leaves in descending frequency order (equal frequencies in key order);
\* every step removes the two tail nodes, makes an internal node with left =
\* the first removed and right = the second removed and puts it at the head
\* of the queue; the last node left is returned; the caller's table is not
\* modified.
C10_MergePolicy ==
    /\ []((pc = "merge" /\ Len(freq) >= 2 /\ Len(nodes_list) = Len(freq)) => QueueOrdered)
    /\ [][(pc = "merge" /\ Len(freq) >= 2 /\ Len(nodes_list) >= 2) =>
            /\ pc' = "merge"
            /\ nodes_list' =
                 <<[symbol |-> NoSymbol,
                    left |-> nodes_list[Len(nodes_list)],
                    right |-> nodes_list[Len(nodes_list) - 1],
                    number |-> NoNumber]>>
                 \o SubSeq(nodes_list, 1, Len(nodes_list) - 2)]_vars
    /\ [][(pc = "merge" /\ Len(freq) >= 2 /\ Len(nodes_list) = 1) =>
            (pc' = "get_codes" /\ tree' = nodes_list[1])]_vars
    /\ [][(pc \in {"huffman_tree", "select", "merge"}) => freq' = freq]_vars

\* three or more symbols, two of them equally frequent, and a merged node
\* that was put at the head came back as the second node removed
C10_Witness ==
    /\ pc = "get_codes"
    /\ Len(freq) >= 3
    /\ \E i \in 1..Len(freq) : \E j \in 1..Len(freq) : i # j /\ freq[i][2] = freq[j][2]
    /\ ~is_leaf(tree) /\ ~is_leaf(tree.right)

\* ---- C4
\* one side of a record: (0, symbol) for a leaf, (1, number) for an internal node
Side(c) == IF is_leaf(c) THEN <<0, c.symbol>> ELSE <<1, c.number>>

\* one four-byte record per internal node, in postorder, the root's last
RECURSIVE Records(_)
Records(t) ==
    IF is_leaf(t) THEN <<>>
    ELSE Records(t.left) \o Records(t.right) \o Side(t.left) \o Side(t.right)

\* C4: for a numbered tree with at least one internal node, tree_to_bytes
\* emits one record (left_is_internal, left_value, right_is_internal,
\* right_value) per internal node, in postorder of the internal nodes, the
\* root's record last; a leaf side is (0, symbol), an internal side is
\* (1, the number of that child).
C4_Records ==
    (pc = "serialized" /\ InternalCount(tree) >= 1) => result = Records(tree)

\* ---- C5
\* C5: number_nodes gives the internal nodes the numbers 0..k-1 in postorder
\* (so the root gets k-1), gives leaves no number, and a second application
\* leaves every number unchanged.
C5_Numbering ==
    /\ pc = "numbered" => tree = Postorder(prev, 0)
    /\ pc = "renumbered" => tree = prev

\* ---- C6
\* C6: for the tree T huffman_tree returns on a table with at least two
\* symbols, numbered by number_nodes, the trees rebuilt from
\* bytes_to_nodes(tree_to_bytes(T)) with root_index = node count - 1 by
\* generate_tree_general and by generate_tree_postorder both have the code
\* table of T, and the two have the same shape.
C6_TreeRoundTrip ==
    (pc = "rebuilt" /\ Len(freq) >= 2 /\ Unnumber(tree) = huffman_tree(freq).val) =>
        /\ get_codes(utree) = get_codes(tree)
        /\ get_codes(ptree) = get_codes(tree)
        /\ Shape(utree) = Shape(ptree)

\* ---- C9
\* the trees of the same shape, the symbols assigned to its leaves in any way
Relabelings == {t \in TreesOver(DictKeySet(freq)) : Shape(t) = Shape(tree)}

\* C9: improve_tree leaves the shape unchanged and the leaves holding a
\* permutation of the same symbols, and afterwards avg_length is the minimum
\* over all assignments of the symbols to the leaves of that shape: no leaf
\* at smaller depth holds a symbol of strictly lower frequency than a leaf at
\* greater depth.
C9_Improved ==
    pc = "measured" =>
        /\ Shape(tree) = Shape(prev)
        /\ {LeafDepths(tree, 0)[i][2] : i \in 1..Len(LeafDepths(tree, 0))} = DictKeySet(freq)
        /\ \A t \in Relabelings : avg[1] <= avg_length(t, freq).val[1]
        /\ \A i \in 1..Len(LeafDepths(tree, 0)) : \A j \in 1..Len(LeafDepths(tree, 0)) :
              LeafDepths(tree, 0)[i][1] < LeafDepths(tree, 0)[j][1] =>
                DictVal(freq, LeafDepths(tree, 0)[i][2]) >= DictVal(freq, LeafDepths(tree, 0)[j][2])

\* ---- C2
CodeBits == concat_codes(text, codes)
PackedBytes == IF Len(CodeBits) < 8 THEN 1 ELSE (Len(CodeBits) + 7) \div 8

RECURSIVE BitsOf(_)
BitsOf(bs) == IF bs = <<>> THEN <<>> ELSE byte_to_bits(Head(bs)) \o BitsOf(Tail(bs))

\* C2: generate_compressed(text, codes) returns ceil(B/8) bytes (one byte
\* when B < 8), B the number of code bits, and their bits, most significant
\* first, are the codes of the bytes of text in order followed by zero bits
\* only; for every B, multiples of 8 and B >= 16 included.
C2_Packing ==
    pc \in {"packed", "raised"} =>
        /\ exc = "none"
        /\ Len(packed) = PackedBytes
        /\ BitsOf(packed) = CodeBits \o [p \in 1..(8 * PackedBytes - Len(CodeBits)) |-> 0]

====
